---- MODULE Spec2Model ----
(***************************************************************************)
(* Model of the mental-health chatbot's retrieval-augmented conversation   *)
(* engine: the per-turn pipeline of MentalHealthRAGChain.chat              *)
(* (src/models/rag_chain.py), the chunker chunk_text                       *)
(* (src/utils/data_loader.py), the VectorStore (src/utils/vector_store.py) *)
(* and the HTTP application with its sessions (src/app).                   *)
(*                                                                         *)
(* Texts are TLA+ strings; a character is a string of length 1.            *)
(* Confidences are kept in thousandths (0.65 is 650).                      *)
(***************************************************************************)
EXTENDS Integers, Sequences, FiniteSets, TLC

VARIABLES
    \* ---- MentalHealthRAGChain.chat: arguments, locals, position ----
    pc,              \* "idle" | "retrieve" | "analyze" | "decide" | "compose" | "done" | "raised"
    user_message,    \* argument user_message
    chat_history,    \* argument chat_history: sequence of [role, content]
    user_msg_count,  \* local user_msg_count
    is_crisis,       \* local is_crisis
    retrieved,       \* local retrieved: sequence of retrieved documents
    context,         \* local context: the formatted reference string
    classification,  \* local classification
    confidence,      \* local confidence, in thousandths
    show_label,      \* local show_label
    status_label,    \* local status_label (NoneValue when not built)
    extcalls,        \* outcome of the three external steps of the turn
    calls,           \* the requests the turn has sent to the store and the LLM, in order
    result,          \* the RAGResponse returned (NoneValue before the return)
    \* ---- chunk_text: arguments, locals, position ----
    cpc,             \* "idle" | "loop" | "done"
    text,            \* argument text
    chunk_size,      \* argument chunk_size
    overlap,         \* argument overlap
    start,           \* local start
    chunks,          \* local chunks
    \* ---- VectorStore and its Chroma client ----
    colls,           \* the collections Chroma has created, by handle: [alive, ids]
    registered,      \* handle of the collection registered under collection_name, 0 if none
    collection,      \* self.collection: the handle the adapter uses
    th,              \* per thread: the call in progress, its arguments and locals
    \* ---- the FastAPI application and its SessionManager ----
    app_state,       \* "starting" | "ready" (rag_chain and session_manager set) | "missing"
    sessions,        \* self.sessions: session_id -> the stored messages
    req,             \* the request being handled, its locals and its response
    turn_no          \* per session: the number of turns /chat has run for it

chatVars  == << pc, user_message, chat_history, user_msg_count, is_crisis, retrieved,
                context, classification, confidence, show_label, status_label,
                extcalls, calls, result >>
chunkVars == << cpc, text, chunk_size, overlap, start, chunks >>
storeVars == << colls, registered, collection, th >>
apiVars   == << app_state, sessions, req, turn_no >>
vars      == << chatVars, chunkVars, storeVars, apiVars >>

NoneValue == "<None>"

\* threads of the server process that call the store
Threads == { 1, 2 }

AllThreadsIdle == \A t \in Threads : th[t].pc = "idle"

(***************************************************************************)
(* Bounds of the model.                                                    *)
(***************************************************************************)
MaxHistory == 2      \* longest chat_history handed to chat
MaxTextLen == 4      \* longest text handed to chunk_text
MaxChunkSize == 3    \* largest chunk_size handed to chunk_text
MaxOverlap == 3      \* largest overlap handed to chunk_text
MaxChunks == 4       \* iterations of the chunk loop that are followed
MaxLongHistory == 11 \* longest of the long chat histories handed to chat
MaxTurns == 4        \* turns of one session that are followed
MaxStored == 4       \* messages a session keeps: max_messages_per_session (100), scaled down
MaxDocs == 2         \* longest document list handed to add_documents
MaxBatchSize == 2    \* largest batch_size handed to add_documents
MaxTopK == 3         \* largest top_k handed to search
MaxCollections == 3  \* collections Chroma creates in a run (the first and two clears)

(***************************************************************************)
(* Python string primitives, computed as CPython computes them on ASCII.   *)
(***************************************************************************)
Ch(s, i) == SubSeq(s, i, i)

MinOf(a, b) == IF a < b THEN a ELSE b

PyLowerChar(c) ==
    CASE c = "A" -> "a" [] c = "B" -> "b" [] c = "C" -> "c" [] c = "D" -> "d"
      [] c = "E" -> "e" [] c = "F" -> "f" [] c = "G" -> "g" [] c = "H" -> "h"
      [] c = "I" -> "i" [] c = "J" -> "j" [] c = "K" -> "k" [] c = "L" -> "l"
      [] c = "M" -> "m" [] c = "N" -> "n" [] c = "O" -> "o" [] c = "P" -> "p"
      [] c = "Q" -> "q" [] c = "R" -> "r" [] c = "S" -> "s" [] c = "T" -> "t"
      [] c = "U" -> "u" [] c = "V" -> "v" [] c = "W" -> "w" [] c = "X" -> "x"
      [] c = "Y" -> "y" [] c = "Z" -> "z" [] OTHER -> c

RECURSIVE PyLower(_)
\* str.lower()
PyLower(s) ==
    IF Len(s) = 0 THEN "" ELSE PyLowerChar(Ch(s, 1)) \o PyLower(SubSeq(s, 2, Len(s)))

\* str.startswith(p)
PyStartsWith(s, p) == Len(p) <= Len(s) /\ SubSeq(s, 1, Len(p)) = p

RECURSIVE PyFindFrom(_, _, _)
\* str.find(sub, i): 0-based index of the first occurrence at or after i, or -1
PyFindFrom(s, sub, i) ==
    IF i + Len(sub) > Len(s) THEN -1
    ELSE IF SubSeq(s, i + 1, i + Len(sub)) = sub THEN i
    ELSE PyFindFrom(s, sub, i + 1)

\* sub in s
PyIn(sub, s) == PyFindFrom(s, sub, 0) # -1

RECURSIVE PyRFindFrom(_, _, _)
PyRFindFrom(s, sub, i) ==
    IF i < 0 THEN -1
    ELSE IF SubSeq(s, i + 1, i + Len(sub)) = sub THEN i
    ELSE PyRFindFrom(s, sub, i - 1)

\* str.rfind(sub): 0-based index of the last occurrence, or -1
PyRFind(s, sub) == PyRFindFrom(s, sub, Len(s) - Len(sub))

PyWhitespace == {" ", "\n", "\t", "\r"}

RECURSIVE PyLStrip(_)
PyLStrip(s) ==
    IF Len(s) > 0 /\ Ch(s, 1) \in PyWhitespace THEN PyLStrip(SubSeq(s, 2, Len(s))) ELSE s

RECURSIVE PyRStrip(_)
PyRStrip(s) ==
    IF Len(s) > 0 /\ Ch(s, Len(s)) \in PyWhitespace
    THEN PyRStrip(SubSeq(s, 1, Len(s) - 1)) ELSE s

\* str.strip()
PyStrip(s) == PyRStrip(PyLStrip(s))

RECURSIVE PyReplaceEmpty(_, _)
\* str.replace(old, ''): every occurrence of old removed, left to right
PyReplaceEmpty(s, old) ==
    LET i == PyFindFrom(s, old, 0)
    IN IF i = -1 THEN s
       ELSE SubSeq(s, 1, i) \o PyReplaceEmpty(SubSeq(s, i + Len(old) + 1, Len(s)), old)

RECURSIVE PySplitLines(_)
\* str.split('\n')
PySplitLines(s) ==
    LET i == PyFindFrom(s, "\n", 0)
    IN IF i = -1 THEN << s >>
       ELSE << SubSeq(s, 1, i) >> \o PySplitLines(SubSeq(s, i + 2, Len(s)))

\* s[a:b] with Python's treatment of negative and out-of-range indices
PySliceIndex(n, len) ==
    IF n < 0 THEN (IF n + len < 0 THEN 0 ELSE n + len)
    ELSE IF n > len THEN len ELSE n

PySlice(s, a, b) ==
    SubSeq(s, PySliceIndex(a, Len(s)) + 1, PySliceIndex(b, Len(s)))

Digits == << "0", "1", "2", "3", "4", "5", "6", "7", "8", "9" >>

IsDigit(c) == \E d \in 1..10 : Digits[d] = c

DigitVal(c) == (CHOOSE d \in 1..10 : Digits[d] = c) - 1

RECURSIVE AllDigits(_)
AllDigits(s) == Len(s) = 0 \/ (IsDigit(Ch(s, 1)) /\ AllDigits(SubSeq(s, 2, Len(s))))

RECURSIVE DigitsVal(_)
DigitsVal(s) ==
    IF Len(s) = 0 THEN 0
    ELSE DigitsVal(SubSeq(s, 1, Len(s) - 1)) * 10 + DigitVal(Ch(s, Len(s)))

RECURSIVE PyStr(_)
\* str(n) of an int
PyStr(n) ==
    IF n < 0 THEN "-" \o PyStr(0 - n)
    ELSE IF n < 10 THEN Digits[n + 1]
    ELSE PyStr(n \div 10) \o Digits[(n % 10) + 1]

(***************************************************************************)
(* float(): a value is [kind, milli], kind "fin" (milli thousandths),      *)
(* "nan", "inf" or "-inf".  PyFloat covers the decimal grammar             *)
(* [sign] digits [. digits] and the words nan, inf, infinity; exponents    *)
(* and digit-group underscores are not among the modelled inputs, and a    *)
(* fraction is read to three places.                                       *)
(***************************************************************************)
Fin(m) == [kind |-> "fin", milli |-> m]

PyFloat(s) ==
    LET low  == PyLower(s)
        sign == IF Len(low) > 0 /\ Ch(low, 1) \in {"+", "-"} THEN Ch(low, 1) ELSE ""
        body == IF sign = "" THEN low ELSE SubSeq(low, 2, Len(low))
        dot  == PyFindFrom(body, ".", 0)
        ip   == IF dot = -1 THEN body ELSE SubSeq(body, 1, dot)
        fp   == IF dot = -1 THEN "" ELSE SubSeq(body, dot + 2, Len(body))
        fp3  == SubSeq(fp \o "000", 1, 3)
        mag  == DigitsVal(ip) * 1000 + DigitsVal(fp3)
    IN IF body = "nan" THEN [ok |-> TRUE, val |-> [kind |-> "nan", milli |-> 0]]
       ELSE IF body \in {"inf", "infinity"}
            THEN [ok |-> TRUE,
                  val |-> [kind |-> IF sign = "-" THEN "-inf" ELSE "inf", milli |-> 0]]
       ELSE IF AllDigits(ip) /\ AllDigits(fp) /\ Len(ip) + Len(fp) > 0
            THEN [ok |-> TRUE, val |-> Fin(IF sign = "-" THEN 0 - mag ELSE mag)]
       ELSE [ok |-> FALSE, val |-> Fin(0)]

\* x < y on floats: every comparison with nan is false
FloatLt(x, y) ==
    /\ x.kind # "nan" /\ y.kind # "nan"
    /\ \/ x.kind = "-inf" /\ y.kind # "-inf"
       \/ y.kind = "inf" /\ x.kind # "inf"
       \/ x.kind = "fin" /\ y.kind = "fin" /\ x.milli < y.milli

\* min(a, b): b if b < a else a
PyMin(a, b) == IF FloatLt(b, a) THEN b ELSE a

\* max(a, b): b if b > a else a
PyMax(a, b) == IF FloatLt(a, b) THEN b ELSE a

(***************************************************************************)
(* MentalHealthRAGChain: constants.                                        *)
(***************************************************************************)
CONFIDENCE_THRESHOLD == 650
MIN_MESSAGES_FOR_LABEL == 3

crisis_keywords ==
    << "suicide", "kill myself", "end my life", "want to die",
       "self-harm", "hurt myself", "cutting", "overdose",
       "no reason to live", "better off dead", "ending it all",
       "bunuh diri", "mau mati", "ingin mati", "tidak ingin hidup",
       "menyakiti diri", "mengakhiri hidup" >>

valid_classes ==
    << "Anxiety", "Depression", "Stress", "Bipolar", "Personality Disorder",
       "Suicidal", "Normal" >>

\* the text _generate_response returns when the composition call fails
\* (the source's trailing emoji is left out: texts are ASCII here)
FallbackAnswer == "I'm here for you. Want to tell me what's on your mind?"

(***************************************************************************)
(* Inputs of a turn.                                                       *)
(***************************************************************************)
Messages ==
    { "Hello",
      "I want to end my life",
      "I WANT TO END MY LIFE",
      "thinking about Suicide",
      "Mau Mati saja",
      "I feel suicidal",
      "work is too much" }

HistoryMessages ==
    { [role |-> "user", content |-> "I can't sleep"],
      [role |-> "assistant", content |-> "What keeps you up?"] }

RECURSIVE SeqsUpTo(_, _)
\* every sequence over S of length at most n
SeqsUpTo(S, n) ==
    IF n = 0 THEN { << >> }
    ELSE LET shorter == SeqsUpTo(S, n - 1)
         IN shorter \cup { Append(h, m) : h \in { x \in shorter : Len(x) = n - 1 }, m \in S }

\* for msg in chat_history[-10:]
HISTORY_WINDOW == 10

\* a conversation of n messages, user and assistant in turn, each with its number
NumberedHistory(n) ==
    [i \in 1..n |-> [role |-> IF i % 2 = 1 THEN "user" ELSE "assistant",
                     content |-> "message " \o PyStr(i)]]

\* conversations that fill the prompt's history window and exceed it
LongHistories == { NumberedHistory(n) : n \in HISTORY_WINDOW..MaxLongHistory }

Histories == SeqsUpTo(HistoryMessages, MaxHistory) \cup LongHistories

\* what the index returns for a query: nearest first, distances in thousandths
IndexHits ==
    { << >>,
      << [content |-> "I worry all the time", id |-> "d1", distance |-> 200,
          metadata |-> [source |-> "statements", mental_health_status |-> "Anxiety"]],
         [content |-> "Try slow breathing", id |-> "d2", distance |-> 450,
          metadata |-> [type |-> "qa_pair"]],
         [content |-> "Unrelated", id |-> "d3", distance |-> 1300,
          metadata |-> [source |-> "faq"]] >> }

SearchOutcomes ==
    { [status |-> "ok", hits |-> h] : h \in IndexHits }
        \cup { [status |-> s, hits |-> << >>] : s \in {"embed_error", "query_error"} }

ClassValues ==
    { "Anxiety", "DEPRESSION", "stress", "Bipolar Disorder", "Personality Disorder",
      "Suicidal", "Normal", "Sad", "", "abnormal", "Depression and Anxiety", "[Stress]" }

ConfTexts ==
    { "0.8", "0.65", "0.649", "0.879", "1.0", "1.5", "-0.2", "abc", "", "nan", "-inf",
      "80%", ".5", "0.3 (low)" }

\* texts the classification call can return
ClassifierReplies ==
    { "CLASSIFICATION: " \o c \o "\nCONFIDENCE: 0.8" : c \in ClassValues }
    \cup { "CLASSIFICATION: " \o c \o "\nCONFIDENCE: " \o t :
             c \in {"Anxiety", "Sad"}, t \in ConfTexts }
    \cup { "CLASSIFICATION: Normal\nCONFIDENCE: 0.9",
           "CLASSIFICATION: Suicidal\nCONFIDENCE: 0.95",
           "",
           "I think this is anxiety.",
           "CONFIDENCE: 0.9",
           "CLASSIFICATION: Stress",
           "CONFIDENCE: 0.7\nCLASSIFICATION: Bipolar",
           "classification: Anxiety\nconfidence: 0.9",
           "CLASSIFICATION: Anxiety\n CONFIDENCE: 0.9",
           "CLASSIFICATION: Anxiety\r\nCONFIDENCE: 0.7\r",
           "  CLASSIFICATION: Depression\nCONFIDENCE: 0.75\n",
           "CLASSIFICATION: Anxiety\nCONFIDENCE: abc\nCONFIDENCE: 0.9",
           "CLASSIFICATION: Anxiety\nCONFIDENCE: 0.9\nCONFIDENCE: abc",
           "CLASSIFICATION: Anxiety\nCLASSIFICATION: Sad\nCONFIDENCE: 0.7",
           "CLASSIFICATION:Stress\nCONFIDENCE:0.66" }

\* texts the composition call can return
ComposerReplies ==
    { "I'm so glad you told me. You can call or text 988 any time.",
      "That sounds rough. What happened?" }

\* an LLM call ends with a text, with an empty (None) content, or with an error
LLMOutcomes(replies) ==
    { [status |-> "ok", content |-> r] : r \in replies \cup {NoneValue} }
        \cup { [status |-> "error", content |-> NoneValue] }

NoCall == [status |-> "none"]

(***************************************************************************)
(* MentalHealthRAGChain: the steps of a turn.  An operation that can raise *)
(* returns [raised, value]; raised is TRUE when the exception leaves it.   *)
(***************************************************************************)
Returned(v) == [raised |-> FALSE, value |-> v]
Raised == [raised |-> TRUE, value |-> NoneValue]

\* dict.get(k, default)
DictGet(d, k, default) == IF k \in DOMAIN d THEN d[k] ELSE default

\* _check_crisis without text.lower(): the phrases are sought in the text as typed
CheckCrisisCaseSensitive(t) ==
    \E k \in 1..Len(crisis_keywords) : PyIn(crisis_keywords[k], t)

\* _check_crisis
CheckCrisis(t) ==
    LET text_lower == PyLower(t)
    IN \E k \in 1..Len(crisis_keywords) : PyIn(crisis_keywords[k], text_lower)

\* every hit formatted, whatever its similarity
FormatHitsUnfiltered(hits, threshold) ==
    [j \in 1..Len(hits) |->
        [content |-> hits[j].content, metadata |-> hits[j].metadata, id |-> hits[j].id,
         similarity |-> 1000 - hits[j].distance]]

RECURSIVE FormatHits(_, _)
\* the loop of VectorStore.search over the hits; threshold in thousandths
FormatHits(hits, threshold) ==
    IF hits = << >> THEN << >>
    ELSE LET h == Head(hits)
             similarity == 1000 - h.distance
             rest == FormatHits(Tail(hits), threshold)
         IN IF similarity >= threshold
            THEN << [content |-> h.content, metadata |-> h.metadata, id |-> h.id,
                     similarity |-> similarity] >> \o rest
            ELSE rest

\* search without its except clause: an error of the embedding call or of the
\* index query leaves the call
VectorStoreSearchNoExcept(outcome, threshold) ==
    IF outcome.status = "ok" THEN Returned(FormatHits(outcome.hits, threshold))
    ELSE Raised

\* VectorStore.search(query, top_k, filter_metadata, threshold): the embedding
\* call and the index query run inside try, and any error returns []
VectorStoreSearchWith(outcome, threshold) ==
    IF outcome.status = "ok" THEN Returned(FormatHits(outcome.hits, threshold))
    ELSE Returned(<< >>)

\* search with the default threshold 0.0, as the chain calls it
VectorStoreSearch(outcome) == VectorStoreSearchWith(outcome, 0)

\* _retrieve_context
RetrieveContext(outcome) ==
    LET r == VectorStoreSearch(outcome)
    IN IF r.raised THEN Returned(<< >>) ELSE r

RECURSIVE FormatParts(_, _)
FormatParts(docs, i) ==
    IF i > Len(docs) THEN ""
    ELSE LET doc == docs[i]
             source == DictGet(doc.metadata, "source", "unknown")
             status == DictGet(doc.metadata, "mental_health_status", "")
             part == IF status # ""
                     THEN "[" \o PyStr(i) \o "] (" \o source \o " - " \o status \o ") "
                              \o doc.content
                     ELSE "[" \o PyStr(i) \o "] (" \o source \o ") " \o doc.content
         IN part \o (IF i < Len(docs) THEN "\n" ELSE "") \o FormatParts(docs, i + 1)

\* _format_context
FormatContext(retrieved_docs) ==
    IF retrieved_docs = << >> THEN "" ELSE FormatParts(retrieved_docs, 1)

RECURSIVE MatchClassOrRaw(_, _)
\* the loop over valid_classes with the raw value kept when no label is found
MatchClassOrRaw(raw_class, k) ==
    IF k > Len(valid_classes) THEN raw_class
    ELSE IF PyIn(PyLower(valid_classes[k]), PyLower(raw_class)) THEN valid_classes[k]
    ELSE MatchClassOrRaw(raw_class, k + 1)

RECURSIVE MatchClass(_, _)
\* the loop over valid_classes: the first label found in raw_class, NoneValue if none
MatchClass(raw_class, k) ==
    IF k > Len(valid_classes) THEN NoneValue
    ELSE IF PyIn(PyLower(valid_classes[k]), PyLower(raw_class)) THEN valid_classes[k]
    ELSE MatchClass(raw_class, k + 1)

\* the parsed confidence taken without clamping
ClampConfidenceOff(v) == v

\* confidence = max(0.0, min(1.0, confidence))
ClampConfidence(v) == PyMax(Fin(0), PyMin(Fin(1000), v))

\* the body of the loop over the reply's lines; acc is [classification, confidence]
AnalyzeLine(acc, line) ==
    IF PyStartsWith(line, "CLASSIFICATION:")
    THEN LET raw_class == PyStrip(PyReplaceEmpty(line, "CLASSIFICATION:"))
             vc == MatchClass(raw_class, 1)
         IN IF vc = NoneValue THEN acc ELSE [acc EXCEPT !.classification = vc]
    ELSE IF PyStartsWith(line, "CONFIDENCE:")
    THEN LET conf_str == PyStrip(PyReplaceEmpty(line, "CONFIDENCE:"))
             f == PyFloat(conf_str)
         IN IF f.ok
            THEN [acc EXCEPT !.confidence = ClampConfidence(f.val).milli]
            ELSE [acc EXCEPT !.confidence = 500]
    ELSE acc

RECURSIVE AnalyzeLines(_, _)
AnalyzeLines(acc, lines) ==
    IF lines = << >> THEN acc
    ELSE AnalyzeLines(AnalyzeLine(acc, Head(lines)), Tail(lines))

\* _analyze_mental_state without its except clause: a failed call propagates
AnalyzeMentalStateNoExcept(call) ==
    IF call.status = "ok" /\ call.content # NoneValue
    THEN Returned(AnalyzeLines([classification |-> "Normal", confidence |-> 500],
                               PySplitLines(PyStrip(call.content))))
    ELSE Raised

\* _analyze_mental_state, given how the classification call ended
AnalyzeMentalState(call) ==
    IF call.status = "ok" /\ call.content # NoneValue
    THEN Returned(AnalyzeLines([classification |-> "Normal", confidence |-> 500],
                               PySplitLines(PyStrip(call.content))))
    ELSE Returned([classification |-> "Normal", confidence |-> 300])

\* _analyze_mental_state tabulated over the classification calls of the model
\* (a constant: each call's return value is computed once)
AnalyzeMentalStateOf ==
    [call \in LLMOutcomes(ClassifierReplies) |-> AnalyzeMentalState(call)]

\* _generate_response, given how the composition call ended; a completion
\* without content is returned as it is (None)
GenerateResponse(call) ==
    IF call.status = "ok" THEN Returned(call.content) ELSE Returned(FallbackAnswer)

\* products confidence * 100 that the double arithmetic leaves just below the
\* integer (0.29, 0.57 and 0.58 among the thousandths 0.000 .. 1.000)
FloatLowProducts == {290, 570, 580}

\* int(confidence * 100)
ConfidencePct(c) ==
    IF c \in FloatLowProducts THEN (c \div 10) - 1 ELSE c \div 10

\* show_label with a strict comparison against the threshold
ShowLabelStrict(count, conf, class, crisis) ==
    (count >= MIN_MESSAGES_FOR_LABEL /\ conf > CONFIDENCE_THRESHOLD /\ class # "Normal")
        \/ crisis

\* show_label of chat
ShowLabel(count, conf, class, crisis) ==
    (count >= MIN_MESSAGES_FOR_LABEL /\ conf >= CONFIDENCE_THRESHOLD /\ class # "Normal")
        \/ crisis

\* status_label of chat
StatusLabel(show, class, conf) ==
    IF show THEN class \o " (" \o PyStr(ConfidencePct(conf)) \o "%)" ELSE NoneValue

\* chat without the crisis override
OverrideSkipped(crisis, class, conf) ==
    [classification |-> class, confidence |-> conf]

\* the classification and confidence after the crisis override
Override(crisis, class, conf) ==
    IF crisis THEN [classification |-> "Suicidal", confidence |-> 1000]
    ELSE [classification |-> class, confidence |-> conf]

RECURSIVE CountUser(_)
\* len([m for m in chat_history if m.role == "user"])
CountUser(h) ==
    IF h = << >> THEN 0
    ELSE (IF Head(h).role = "user" THEN 1 ELSE 0) + CountUser(Tail(h))

(***************************************************************************)
(* MentalHealthRAGChain.chat as a sequence of steps.  The process serves   *)
(* one operation at a time, so a turn begins only while the chunker idles. *)
(***************************************************************************)
\* the request of _retrieve_context: vector_store.search(query=query, top_k=...)
SearchCall(query) == [kind |-> "search", query |-> query]

\* user messages of the conversation: [m.content for m in chat_history if m.role == "user"]
UserContents(h) ==
    LET IsUser(m) == m.role = "user"
        users == SelectSeq(h, IsUser)
    IN [i \in 1..Len(users) |-> users[i].content]

\* the classification request built without the retrieved context
AnalyzeCallNoContext(h, current_message, ctx) ==
    [kind |-> "classify", user_msgs |-> Append(UserContents(h), current_message),
     context |-> ""]

\* the request of _analyze_mental_state: the prompt lists the user messages and
\* the context handed in
AnalyzeCall(h, current_message, ctx) ==
    [kind |-> "classify", user_msgs |-> Append(UserContents(h), current_message),
     context |-> ctx]

\* the system profiles of _generate_response, each given by its first sentence
CrisisProfile == "You are a caring friend. The user may be in crisis."

SupportProfile ==
    "You are MindCare, a warm and supportive conversational companion."

\* knowledge_prompt: the context between its heading and its closing reminder
KnowledgePrompt(ctx) ==
    "\n=== KNOWLEDGE BASE REFERENCE ===\n" \o ctx \o "\nRemember: Reference this knowledge naturally.\n"

\* chat_history[-10:]
LastMessages(h) ==
    IF Len(h) <= HISTORY_WINDOW THEN h ELSE SubSeq(h, Len(h) - HISTORY_WINDOW + 1, Len(h))

\* the prompt with the whole history in it
ComposeMessagesWholeHistory(message, ctx, h, crisis) ==
    << [role |-> "system", content |-> IF crisis THEN CrisisProfile ELSE SupportProfile] >>
        \o (IF ctx # "" THEN << [role |-> "system", content |-> KnowledgePrompt(ctx)] >>
            ELSE << >>)
        \o [i \in 1..Len(h) |-> [role |-> h[i].role, content |-> h[i].content]]
        \o << [role |-> "user", content |-> message] >>

\* messages of _generate_response: the profile, the knowledge block if there is
\* context, the last messages of the history, the current message
ComposeMessages(message, ctx, h, crisis) ==
    LET window == LastMessages(h)
    IN << [role |-> "system", content |-> IF crisis THEN CrisisProfile ELSE SupportProfile] >>
        \o (IF ctx # "" THEN << [role |-> "system", content |-> KnowledgePrompt(ctx)] >>
            ELSE << >>)
        \o [i \in 1..Len(window) |-> [role |-> window[i].role, content |-> window[i].content]]
        \o << [role |-> "user", content |-> message] >>

\* the request of _generate_response
ComposeCall(message, ctx, h, crisis) ==
    [kind |-> "compose", context |-> ctx, messages |-> ComposeMessages(message, ctx, h, crisis)]

NoCalls == [search |-> NoCall, classify |-> NoCall, compose |-> NoCall]

ChatInit ==
    /\ pc = "idle"
    /\ user_message = ""
    /\ chat_history = << >>
    /\ user_msg_count = 0
    /\ is_crisis = FALSE
    /\ retrieved = << >>
    /\ context = ""
    /\ classification = NoneValue
    /\ confidence = 0
    /\ show_label = FALSE
    /\ status_label = NoneValue
    /\ extcalls = NoCalls
    /\ calls = << >>
    /\ result = NoneValue

\* chat is called: user_msg_count and the crisis check
ChatBegin ==
    /\ pc = "idle" /\ cpc = "idle" /\ AllThreadsIdle /\ req.pc = "idle"
    /\ \E m \in Messages, h \in Histories :
          /\ user_message' = m
          /\ chat_history' = h
          /\ user_msg_count' = CountUser(h) + 1
          /\ is_crisis' = CheckCrisis(m)
    /\ pc' = "retrieve"
    /\ UNCHANGED << retrieved, context, classification, confidence, show_label,
                    status_label, extcalls, calls, result, chunkVars, storeVars, apiVars >>

\* retrieved = _retrieve_context(user_message); context = _format_context(retrieved)
ChatRetrieve ==
    /\ pc = "retrieve"
    /\ \E outcome \in SearchOutcomes :
          LET r == RetrieveContext(outcome)
          IN /\ extcalls' = [extcalls EXCEPT !.search = outcome]
             /\ calls' = Append(calls, SearchCall(user_message))
             /\ IF r.raised
                THEN pc' = "raised" /\ UNCHANGED << retrieved, context >>
                ELSE /\ retrieved' = r.value
                     /\ context' = FormatContext(r.value)
                     /\ pc' = "analyze"
    /\ UNCHANGED << user_message, chat_history, user_msg_count, is_crisis, classification,
                    confidence, show_label, status_label, result, chunkVars, storeVars, apiVars >>

\* classification, confidence = _analyze_mental_state(chat_history, user_message, context)
ChatAnalyze ==
    /\ pc = "analyze"
    /\ \E call \in LLMOutcomes(ClassifierReplies) :
          LET a == AnalyzeMentalStateOf[call]
          IN /\ extcalls' = [extcalls EXCEPT !.classify = call]
             /\ calls' = Append(calls, AnalyzeCall(chat_history, user_message, context))
             /\ IF a.raised
                THEN pc' = "raised" /\ UNCHANGED << classification, confidence >>
                ELSE /\ classification' = a.value.classification
                     /\ confidence' = a.value.confidence
                     /\ pc' = "decide"
    /\ UNCHANGED << user_message, chat_history, user_msg_count, is_crisis, retrieved,
                    context, show_label, status_label, result, chunkVars, storeVars, apiVars >>

\* the crisis override, show_label and status_label
ChatDecide ==
    /\ pc = "decide"
    /\ LET o == Override(is_crisis, classification, confidence)
           show == ShowLabel(user_msg_count, o.confidence, o.classification, is_crisis)
       IN /\ classification' = o.classification
          /\ confidence' = o.confidence
          /\ show_label' = show
          /\ status_label' = StatusLabel(show, o.classification, o.confidence)
    /\ pc' = "compose"
    /\ UNCHANGED << user_message, chat_history, user_msg_count, is_crisis, retrieved,
                    context, extcalls, calls, result, chunkVars, storeVars, apiVars >>

\* answer = _generate_response(...); return RAGResponse(...)
ChatCompose ==
    /\ pc = "compose"
    /\ \E call \in LLMOutcomes(ComposerReplies) :
          LET g == GenerateResponse(call)
          IN /\ extcalls' = [extcalls EXCEPT !.compose = call]
             /\ calls' = Append(calls,
                                ComposeCall(user_message, context, chat_history, is_crisis))
             /\ IF g.raised
                THEN pc' = "raised" /\ UNCHANGED result
                ELSE /\ result' = [answer |-> g.value,
                                   classification |-> classification,
                                   confidence |-> confidence,
                                   retrieved_context |-> retrieved,
                                   is_crisis |-> is_crisis,
                                   status_label |-> status_label,
                                   show_label |-> show_label,
                                   message_count |-> user_msg_count]
                     /\ pc' = "done"
    /\ UNCHANGED << user_message, chat_history, user_msg_count, is_crisis, retrieved,
                    context, classification, confidence, show_label, status_label,
                    chunkVars, storeVars, apiVars >>

\* the caller has the result (or the exception); the chain holds no state of the turn
ChatReturn ==
    /\ pc \in {"done", "raised"}
    /\ pc' = "idle"
    /\ user_message' = ""
    /\ chat_history' = << >>
    /\ user_msg_count' = 0
    /\ is_crisis' = FALSE
    /\ retrieved' = << >>
    /\ context' = ""
    /\ classification' = NoneValue
    /\ confidence' = 0
    /\ show_label' = FALSE
    /\ status_label' = NoneValue
    /\ extcalls' = NoCalls
    /\ calls' = << >>
    /\ result' = NoneValue
    /\ UNCHANGED << chunkVars, storeVars, apiVars >>

ChatNext ==
    \/ ChatBegin
    \/ ChatRetrieve
    \/ ChatAnalyze
    \/ ChatDecide
    \/ ChatCompose
    \/ ChatReturn

\* self.collection.query(...) is called and never answers.  The call is made
\* without a timeout and nothing else in the turn runs beside it, so the turn
\* waits in the call.  (The OpenAI client, built without a timeout argument,
\* gives up a stalled request by itself and raises, which is the error outcome
\* of ChatRetrieve, ChatAnalyze and ChatCompose.)
ChatQueryStalls ==
    /\ pc = "retrieve"
    /\ pc' = "waiting"
    /\ calls' = Append(calls, SearchCall(user_message))
    /\ UNCHANGED << user_message, chat_history, user_msg_count, is_crisis, retrieved,
                    context, classification, confidence, show_label, status_label,
                    extcalls, result, chunkVars, storeVars, apiVars >>

\* a turn whose external calls answer, fail or stall
ChatLiveNext == ChatNext \/ ChatQueryStalls

(***************************************************************************)
(* chunk_text.                                                             *)
(***************************************************************************)
Alphabet == { "a", ".", "?", " ", "\n" }

RECURSIVE TextsUpTo(_)
\* every text over Alphabet of length at most n
TextsUpTo(n) ==
    IF n = 0 THEN { "" }
    ELSE LET shorter == TextsUpTo(n - 1)
         IN shorter \cup { t \o c : t \in { x \in shorter : Len(x) = n - 1 }, c \in Alphabet }

Texts == TextsUpTo(MaxTextLen)

separators == << ". ", "! ", "? ", "\n" >>

RECURSIVE FirstSeparatorCut(_, _)
\* the loop over the separators: last_sep + len(sep) for the first separator that
\* occurs in the window, -1 when none does
FirstSeparatorCut(window, k) ==
    IF k > Len(separators) THEN -1
    ELSE LET last_sep == PyRFind(window, separators[k])
         IN IF last_sep # -1 THEN last_sep + Len(separators[k])
            ELSE FirstSeparatorCut(window, k + 1)

\* end of the window that begins at st
WindowEnd(t, size, st) ==
    LET end == st + size
        cut == FirstSeparatorCut(PySlice(t, st, end), 1)
    IN IF end < Len(t) /\ cut # -1 THEN st + cut ELSE end

\* start of the next window
NextStart(end, ov) == end - ov

\* a short text with its surrounding whitespace trimmed, as the loop trims chunks
ShortResultStripped(t) == << PyStrip(t) >>

\* if len(text) <= chunk_size: return [text]
ShortResult(t) == << t >>

ChunkInit ==
    /\ cpc = "idle"
    /\ text = ""
    /\ chunk_size = 1
    /\ overlap = 0
    /\ start = 0
    /\ chunks = << >>

\* chunk_text is called; a text that fits one chunk is returned at once
ChunkBegin ==
    /\ cpc = "idle" /\ pc = "idle" /\ AllThreadsIdle /\ req.pc = "idle"
    /\ \E t \in Texts, size \in 1..MaxChunkSize, ov \in 0..MaxOverlap :
          /\ text' = t
          /\ chunk_size' = size
          /\ overlap' = ov
          /\ start' = 0
          /\ IF Len(t) <= size
             THEN chunks' = ShortResult(t) /\ cpc' = "done"
             ELSE chunks' = << >> /\ cpc' = "loop"
    /\ UNCHANGED << chatVars, storeVars, apiVars >>

\* one iteration of while start < len(text)
ChunkStep ==
    /\ cpc = "loop"
    /\ start < Len(text)
    /\ Len(chunks) < MaxChunks
    /\ LET end == WindowEnd(text, chunk_size, start)
       IN /\ chunks' = Append(chunks, PyStrip(PySlice(text, start, end)))
          /\ start' = NextStart(end, overlap)
    /\ UNCHANGED << cpc, text, chunk_size, overlap, chatVars, storeVars, apiVars >>

\* the loop condition fails: return chunks
ChunkExit ==
    /\ cpc = "loop"
    /\ ~(start < Len(text))
    /\ cpc' = "done"
    /\ UNCHANGED << text, chunk_size, overlap, start, chunks, chatVars, storeVars, apiVars >>

\* the caller has the list
ChunkReturn ==
    /\ cpc = "done"
    /\ cpc' = "idle"
    /\ text' = ""
    /\ chunk_size' = 1
    /\ overlap' = 0
    /\ start' = 0
    /\ chunks' = << >>
    /\ UNCHANGED << chatVars, storeVars, apiVars >>

ChunkNext ==
    \/ ChunkBegin
    \/ ChunkStep
    \/ ChunkExit
    \/ ChunkReturn

(***************************************************************************)
(* VectorStore (utils/vector_store.py) over a Chroma collection, and the   *)
(* index reload task of app/main.py.  Every call is split at its calls to  *)
(* the embedding service and to Chroma, so that calls of two threads       *)
(* interleave between them.                                                *)
(***************************************************************************)

\* documents the loader produces: [content, metadata, doc_id]; the third has no id
StatementDoc ==
    [content |-> "I worry all the time",
     metadata |-> [source |-> "statements", mental_health_status |-> "Anxiety",
                   type |-> "statement"],
     doc_id |-> "stmt_0"]

QADoc ==
    [content |-> "Try slow breathing", metadata |-> [type |-> "qa_pair"],
     doc_id |-> "qa_0"]

AnonymousDoc ==
    [content |-> "Unrelated", metadata |-> [source |-> "faq"], doc_id |-> ""]

Corpus == { StatementDoc, QADoc, AnonymousDoc }

\* what DataLoader.load_all_datasets returns when the data directory has data:
\* the QA pairs, then the statements
Dataset == << QADoc, StatementDoc >>

DocLists == SeqsUpTo(Corpus, MaxDocs)

BatchSizes == 1..MaxBatchSize

\* _generate_doc_id: md5 of content and metadata; the digest is kept symbolic,
\* one digest per content
GenerateDocId(content, metadata) == "md5:" \o content

\* doc.doc_id or self._generate_doc_id(doc.content, doc.metadata)
DocId(doc) ==
    IF doc.doc_id # "" THEN doc.doc_id ELSE GenerateDocId(doc.content, doc.metadata)

\* the index's order for the query of the model: nearest first, with the cosine
\* distance of each document in thousandths
NearestFirst ==
    << [doc |-> StatementDoc, distance |-> 200],
       [doc |-> QADoc, distance |-> 450],
       [doc |-> AnonymousDoc, distance |-> 1300] >>

\* where = None is the empty filter
NoFilter == << >>

Filters == { NoFilter, [type |-> "qa_pair"], [type |-> "statement"] }

Thresholds == { -1000, 0, 600 }

\* Chroma's where clause: every key of the filter is in the metadata with that value
MatchesWhere(metadata, where) ==
    \A k \in DOMAIN where : k \in DOMAIN metadata /\ metadata[k] = where[k]

\* collection.query(n_results = top_k, where = filter) on a collection holding ids:
\* the matching documents, nearest first, at most top_k of them
QueryIndex(ids, top_k, where) ==
    LET Match(e) == DocId(e.doc) \in ids /\ MatchesWhere(e.doc.metadata, where)
        found == SelectSeq(NearestFirst, Match)
        kept == SubSeq(found, 1, MinOf(top_k, Len(found)))
    IN [j \in 1..Len(kept) |->
           [content |-> kept[j].doc.content, id |-> DocId(kept[j].doc),
            distance |-> kept[j].distance, metadata |-> kept[j].doc.metadata]]

\* a Chroma collection: the ids it holds, and whether it still exists
EmptyCollection == [alive |-> TRUE, ids |-> {}]

\* chroma_client.delete_collection(name): the collection of handle r is dropped
\* with what it held; every later call through a handle to it fails
DeleteCollection(cs, r) == [cs EXCEPT ![r] = [alive |-> FALSE, ids |-> {}]]

\* chroma_client.create_collection(name, ...): a new empty collection
CreateCollection(cs) == Append(cs, EmptyCollection)

\* self.collection keeps the handle the adapter last stored
AssignedCollectionKept(old, created) == old

\* self.collection = self.chroma_client.create_collection(...)
AssignedCollection(old, created) == created

\* batch_size: int = 100
DEFAULT_BATCH_SIZE == 100

\* RETRIEVAL_TOP_K: int = 5, the top_k of the chain's searches
RETRIEVAL_TOP_K == 5

\* batch = documents[i:i + batch_size]
Batch(documents, i, batch_size) ==
    SubSeq(documents, i + 1, MinOf(i + batch_size, Len(documents)))

\* ids = [doc.doc_id or self._generate_doc_id(...) for doc in batch]
BatchIds(batch) == [j \in 1..Len(batch) |-> DocId(batch[j])]

\* every id of the batch taken as new
NewIdsAll(ids, existing) == ids

\* new_ids: the ids of the batch that collection.get did not return
NewIds(ids, existing) ==
    LET IsNew(id) == id \notin existing
    IN SelectSeq(ids, IsNew)

\* the whole batch counted, whatever was written
CountBatch(added_count, new_ids, batch) == added_count + Len(batch)

\* added_count += len(new_indices)
CountAdded(added_count, new_ids, batch) == added_count + Len(new_ids)

SeqRange(s) == { s[j] : j \in 1..Len(s) }

\* Chroma's add rejects a call that names an id twice (DuplicateIDError)
HasDuplicates(ids) == Cardinality(SeqRange(ids)) < Len(ids)

Idle == [pc |-> "idle"]

\* summary of the call that a repeated add_documents call repeats
NoFirst == [repeated |-> FALSE, errors |-> 0, count |-> 0, wrote_all |-> FALSE]

StoreCount == Cardinality(colls[collection].ids)

\* the ids of the documents the store holds (none when its collection is dropped)
StoreContents == IF colls[collection].alive THEN colls[collection].ids ELSE {}

StoreInit ==
    /\ colls = << EmptyCollection >>
    /\ registered = 1
    /\ collection = 1
    /\ th = [t \in Threads |-> Idle]

OthersIdle == pc = "idle" /\ cpc = "idle" /\ req.pc = "idle"

storeState == << colls, registered, collection >>

\* the record of an add_documents call at its entry (an empty list returns 0 at once)
StartUpsert(D, bs, task, first, before) ==
    [pc |-> IF D = << >> THEN "done" ELSE "upsert_get", op |-> "add_documents",
     task |-> task, documents |-> D, batch_size |-> bs, i |-> 0, added_count |-> 0,
     new_ids |-> << >>, errors |-> 0, before |-> before, first |-> first,
     raised |-> FALSE, clear_failed |-> FALSE]

\* for i in range(0, len(documents), batch_size): the next batch, or the return
UpsertAdvance(c) ==
    LET n == [c EXCEPT !.i = c.i + c.batch_size, !.new_ids = << >>]
    IN IF n.i < Len(c.documents) THEN [n EXCEPT !.pc = "upsert_get"]
       ELSE [n EXCEPT !.pc = "done"]

\* except Exception: log, continue
UpsertSkip(c) == UpsertAdvance([c EXCEPT !.errors = c.errors + 1])

UpsertBegin(t, D, bs) ==
    /\ OthersIdle
    /\ th[t].pc = "idle"
    /\ th' = [th EXCEPT ![t] = StartUpsert(D, bs, "call", NoFirst, StoreCount)]
    /\ UNCHANGED << storeState, chatVars, chunkVars, apiVars >>

\* the caller repeats the add_documents call it has just finished, with the
\* same documents and batch size
UpsertAgain(t) ==
    /\ th[t].pc = "done"
    /\ th[t].op = "add_documents"
    /\ th[t].task = "call"
    /\ ~th[t].first.repeated
    /\ LET c == th[t]
           first == [repeated |-> TRUE, errors |-> c.errors, count |-> StoreCount,
                     wrote_all |-> SeqRange(BatchIds(c.documents))
                                       \subseteq colls[collection].ids]
       IN th' = [th EXCEPT ![t] =
                    StartUpsert(c.documents, c.batch_size, "call", first, StoreCount)]
    /\ UNCHANGED << storeState, chatVars, chunkVars, apiVars >>

\* existing = self.collection.get(ids=ids); new_indices; if not new_indices: continue
UpsertGet(t, ok) ==
    /\ th[t].pc = "upsert_get"
    /\ LET c == th[t]
           ids == BatchIds(Batch(c.documents, c.i, c.batch_size))
           new_ids == NewIds(ids, colls[collection].ids)
       IN th' = [th EXCEPT ![t] =
                    IF ~ok \/ ~colls[collection].alive THEN UpsertSkip(c)
                    ELSE IF new_ids = << >> THEN UpsertAdvance(c)
                    ELSE [c EXCEPT !.pc = "upsert_embed", !.new_ids = new_ids]]
    /\ UNCHANGED << storeState, chatVars, chunkVars, apiVars >>

\* embeddings = self._get_embeddings(new_contents)
UpsertEmbed(t, ok) ==
    /\ th[t].pc = "upsert_embed"
    /\ th' = [th EXCEPT ![t] =
                 IF ok THEN [th[t] EXCEPT !.pc = "upsert_add"] ELSE UpsertSkip(th[t])]
    /\ UNCHANGED << storeState, chatVars, chunkVars, apiVars >>

\* self.collection.add(...); added_count += len(new_indices).  An id that another
\* thread wrote since the get is either rejected (ok = FALSE) or left as it is.
UpsertAdd(t, ok) ==
    /\ th[t].pc = "upsert_add"
    /\ LET c == th[t]
           batch == Batch(c.documents, c.i, c.batch_size)
           written == ok /\ colls[collection].alive /\ ~HasDuplicates(c.new_ids)
       IN /\ colls' = IF written
                      THEN [colls EXCEPT ![collection].ids = @ \cup SeqRange(c.new_ids)]
                      ELSE colls
          /\ th' = [th EXCEPT ![t] =
                       IF written
                       THEN UpsertAdvance([c EXCEPT !.added_count =
                                               CountAdded(c.added_count, c.new_ids, batch)])
                       ELSE UpsertSkip(c)]
    /\ UNCHANGED << registered, collection, chatVars, chunkVars, apiVars >>

SearchBegin(t, k, where, thr) ==
    /\ OthersIdle
    /\ th[t].pc = "idle"
    /\ th' = [th EXCEPT ![t] =
                 [pc |-> "search_embed", op |-> "search", task |-> "call", top_k |-> k,
                  filter_metadata |-> where, threshold |-> thr, status |-> "",
                  results |-> << >>, raised |-> FALSE, clear_failed |-> FALSE]]
    /\ UNCHANGED << storeState, chatVars, chunkVars, apiVars >>

\* the return of search for what the embedding call and the index query did
SearchReturn(c, outcome) ==
    LET r == VectorStoreSearchWith(outcome, c.threshold)
    IN [c EXCEPT !.pc = "done", !.status = outcome.status, !.results = r.value,
                 !.raised = r.raised]

\* query_embedding = self._get_embeddings([query])[0]
SearchEmbed(t, ok) ==
    /\ th[t].pc = "search_embed"
    /\ th' = [th EXCEPT ![t] =
                 IF ok THEN [th[t] EXCEPT !.pc = "search_query"]
                 ELSE SearchReturn(th[t], [status |-> "embed_error", hits |-> << >>])]
    /\ UNCHANGED << storeState, chatVars, chunkVars, apiVars >>

\* results = self.collection.query(...), then the loop over the hits
SearchQuery(t, ok) ==
    /\ th[t].pc = "search_query"
    /\ LET c == th[t]
           outcome == IF ok /\ colls[collection].alive
                      THEN [status |-> "ok",
                            hits |-> QueryIndex(colls[collection].ids, c.top_k,
                                                c.filter_metadata)]
                      ELSE [status |-> "query_error", hits |-> << >>]
       IN th' = [th EXCEPT ![t] = SearchReturn(c, outcome)]
    /\ UNCHANGED << storeState, chatVars, chunkVars, apiVars >>

\* get_collection_stats: 'count': self.collection.count()
Stats(t, ok) ==
    /\ OthersIdle
    /\ th[t].pc = "idle"
    /\ th' = [th EXCEPT ![t] =
                 [pc |-> "done", op |-> "get_collection_stats", task |-> "call",
                  count |-> StoreCount, raised |-> ~(ok /\ colls[collection].alive),
                  clear_failed |-> FALSE]]
    /\ UNCHANGED << storeState, chatVars, chunkVars, apiVars >>

ClearsInFlight ==
    Cardinality({ t \in Threads : th[t].pc \in {"clear_delete", "clear_create"} })

\* the record of a clear_collection call at its entry; before is the count then
StartClear(task) ==
    [pc |-> "clear_delete", op |-> "clear_collection", task |-> task, created |-> 0,
     before |-> StoreCount, raised |-> FALSE, clear_failed |-> FALSE]

ClearBegin(t) ==
    /\ OthersIdle
    /\ th[t].pc = "idle"
    /\ Len(colls) + ClearsInFlight < MaxCollections
    /\ th' = [th EXCEPT ![t] = StartClear("call")]
    /\ UNCHANGED << storeState, chatVars, chunkVars, apiVars >>

\* except Exception as e: log; raise.  Inside reload_task the exception is
\* caught by the task's own except, which logs it and ends the task.
ClearFail(c) ==
    [c EXCEPT !.pc = "done", !.clear_failed = TRUE, !.raised = (c.task = "call")]

\* self.chroma_client.delete_collection(self.collection_name)
ClearDelete(t, ok) ==
    /\ th[t].pc = "clear_delete"
    /\ IF ok /\ registered # 0
       THEN /\ colls' = DeleteCollection(colls, registered)
            /\ registered' = 0
            /\ th' = [th EXCEPT ![t].pc = "clear_create"]
       ELSE /\ th' = [th EXCEPT ![t] = ClearFail(th[t])]
            /\ UNCHANGED << colls, registered >>
    /\ UNCHANGED << collection, chatVars, chunkVars, apiVars >>

\* self.chroma_client.create_collection(name=..., metadata=...)
ClearCreate(t, ok) ==
    /\ th[t].pc = "clear_create"
    /\ IF ok /\ registered = 0
       THEN /\ colls' = CreateCollection(colls)
            /\ registered' = Len(colls) + 1
            /\ th' = [th EXCEPT ![t].pc = "clear_assign", ![t].created = Len(colls) + 1]
       ELSE /\ th' = [th EXCEPT ![t] = ClearFail(th[t])]
            /\ UNCHANGED << colls, registered >>
    /\ UNCHANGED << collection, chatVars, chunkVars, apiVars >>

\* self.collection = <the collection just created>; in reload_task the call
\* vector_store.add_documents(documents) follows
ClearAssign(t) ==
    /\ th[t].pc = "clear_assign"
    /\ collection' = AssignedCollection(collection, th[t].created)
    /\ th' = [th EXCEPT ![t] =
                 IF th[t].task = "call" THEN [th[t] EXCEPT !.pc = "done"]
                 ELSE StartUpsert(Dataset, DEFAULT_BATCH_SIZE, "reload", NoFirst,
                                  Cardinality(colls[collection'].ids))
                          @@ [prior |-> th[t].prior]]
    /\ UNCHANGED << colls, registered, chatVars, chunkVars, apiVars >>

LoaderOutcomes == { "documents", "empty", "error" }

\* POST /index/reload answers "Index reload started in background" and runs
\* reload_task on a worker thread: load the datasets; if documents: clear, add.
\* prior is what the store holds when the task starts.
ReloadBegin(t, loaded) ==
    /\ OthersIdle
    /\ th[t].pc = "idle"
    /\ Len(colls) + ClearsInFlight < MaxCollections
    /\ th' = [th EXCEPT ![t] =
                 (IF loaded = "documents" THEN StartClear("reload")
                  ELSE [StartClear("reload") EXCEPT !.pc = "done", !.op = "reload_task"])
                 @@ [prior |-> StoreContents]]
    /\ UNCHANGED << storeState, chatVars, chunkVars, apiVars >>

\* the call is over; the thread takes the next one
Finish(t) ==
    /\ th[t].pc = "done"
    /\ th' = [th EXCEPT ![t] = Idle]
    /\ UNCHANGED << storeState, chatVars, chunkVars, apiVars >>

StoreStep(t) ==
    \/ \E D \in DocLists, bs \in BatchSizes : UpsertBegin(t, D, bs)
    \/ UpsertAgain(t)
    \/ \E ok \in BOOLEAN : UpsertGet(t, ok)
    \/ \E ok \in BOOLEAN : UpsertEmbed(t, ok)
    \/ \E ok \in BOOLEAN : UpsertAdd(t, ok)
    \/ \E k \in 1..MaxTopK, where \in Filters, thr \in Thresholds :
           SearchBegin(t, k, where, thr)
    \/ \E ok \in BOOLEAN : SearchEmbed(t, ok)
    \/ \E ok \in BOOLEAN : SearchQuery(t, ok)
    \/ \E ok \in BOOLEAN : Stats(t, ok)
    \/ ClearBegin(t)
    \/ \E ok \in BOOLEAN : ClearDelete(t, ok)
    \/ \E ok \in BOOLEAN : ClearCreate(t, ok)
    \/ ClearAssign(t)
    \/ \E loaded \in LoaderOutcomes : ReloadBegin(t, loaded)
    \/ Finish(t)

\* one caller at a time
StoreNext == \E t \in { 1 } : StoreStep(t)

\* the calls the running application makes from its threads: the chat's search,
\* the reload task's clear and add of the dataset, and the same calls made
\* directly.  The embedding service and Chroma answer every call they can
\* answer: a call fails only for what another thread has done to the store.
RaceStep(t) ==
    \/ UpsertBegin(t, Dataset, DEFAULT_BATCH_SIZE)
    \/ UpsertGet(t, TRUE)
    \/ UpsertEmbed(t, TRUE)
    \/ UpsertAdd(t, TRUE)
    \/ SearchBegin(t, RETRIEVAL_TOP_K, NoFilter, 0)
    \/ SearchEmbed(t, TRUE)
    \/ SearchQuery(t, TRUE)
    \/ ClearBegin(t)
    \/ ClearDelete(t, TRUE)
    \/ ClearCreate(t, TRUE)
    \/ ClearAssign(t)
    \/ ReloadBegin(t, "documents")
    \/ Finish(t)

\* any interleaving of the calls of the threads
RaceNext == \E t \in Threads : RaceStep(t)

(***************************************************************************)
(* The HTTP application (src/app/main.py) and its SessionManager           *)
(* (src/app/session_manager.py).  A handler is an async function that      *)
(* never awaits, so the event loop runs one request at a time.  The        *)
(* timestamps of sessions and messages are left out: nothing reads them.   *)
(***************************************************************************)
\* message: str = Field(..., min_length=1, max_length=5000)
MIN_MESSAGE_LENGTH == 1
MAX_MESSAGE_LENGTH == 5000

RECURSIVE Repeat(_, _)
\* c * n
Repeat(c, n) ==
    IF n = 0 THEN ""
    ELSE LET half == Repeat(c, n \div 2)
         IN half \o half \o (IF n % 2 = 1 THEN c ELSE "")

\* a message one character longer than ChatRequest allows
LongMessage == Repeat("a", MAX_MESSAGE_LENGTH + 1)

\* messages sent to /chat
ChatMessages == { "", "Hello", "I want to end my life", LongMessage }

\* messages sent to /chat/simple (a message of any length takes the same path)
SimpleMessages == { "", "Hello", "I want to end my life" }

\* session_id of a ChatRequest: given, or absent (None)
RequestSessionIds == { "s1", NoneValue }

\* values of str(uuid.uuid4())
Uuids == { "uuid-1" }

\* the validation of ChatRequest.message
ValidMessage(m) == Len(m) >= MIN_MESSAGE_LENGTH /\ Len(m) <= MAX_MESSAGE_LENGTH

\* how the three external calls of a turn end: all fail, or all answer
TurnOutcomes ==
    { [search |-> [status |-> "query_error", hits |-> << >>],
       classify |-> [status |-> "error", content |-> NoneValue],
       compose |-> [status |-> "error", content |-> NoneValue]],
      [search |-> [status |-> "ok", hits |-> << >>],
       classify |-> [status |-> "ok", content |-> "CLASSIFICATION: Anxiety\nCONFIDENCE: 0.8"],
       compose |-> [status |-> "ok", content |-> "That sounds rough. What happened?"]] }

\* MentalHealthRAGChain.chat as one call: the RAGResponse it returns, given the
\* classification and confidence a of _analyze_mental_state
ChainChatWith(message, h, o, a) ==
    LET count == CountUser(h) + 1
        crisis == CheckCrisis(message)
        ov == Override(crisis, a.classification, a.confidence)
        show == ShowLabel(count, ov.confidence, ov.classification, crisis)
    IN [answer |-> GenerateResponse(o.compose).value,
        classification |-> ov.classification,
        confidence |-> ov.confidence,
        retrieved_context |-> RetrieveContext(o.search).value,
        is_crisis |-> crisis,
        status_label |-> StatusLabel(show, ov.classification, ov.confidence),
        show_label |-> show,
        message_count |-> count]

\* MentalHealthRAGChain.chat as one call (the classification is evaluated once)
ChainChat(message, h, o) ==
    CHOOSE r \in { ChainChatWith(message, h, o, a.value) :
                     a \in { AnalyzeMentalStateOf[o.classify] } } : TRUE

\* seq[-n:] for n > 0
PyLastN(seq, n) == IF Len(seq) <= n THEN seq ELSE SubSeq(seq, Len(seq) - n + 1, Len(seq))

\* _get_or_create_session
GetOrCreateSession(ss, sid) == IF sid \in DOMAIN ss THEN ss ELSE ss @@ (sid :> << >>)

\* add_message: append, then keep the last max_messages
AddMessage(ss, sid, role, content, class, crisis) ==
    LET created == GetOrCreateSession(ss, sid)
        message == [role |-> role, content |-> content, classification |-> class,
                    is_crisis |-> crisis]
        appended == Append(created[sid], message)
    IN [created EXCEPT ![sid] = IF Len(appended) > MaxStored
                                THEN PyLastN(appended, MaxStored)
                                ELSE appended]

\* get_chat_history: the ChatMessage(role, content) of each stored message
GetChatHistory(ss, sid) ==
    LET msgs == GetOrCreateSession(ss, sid)[sid]
    IN [i \in 1..Len(msgs) |-> [role |-> msgs[i].role, content |-> msgs[i].content]]

\* the attributes the /chat handler reads from the response for its body
ChatBodyReads ==
    { "answer", "classification", "confidence", "is_crisis", "is_final_analysis",
      "message_count" }

\* the attributes the /chat/simple handler reads
SimpleBodyReads == { "answer", "classification", "is_crisis" }

\* the body of /chat
ChatBody(r) ==
    [response |-> r.answer, classification |-> r.classification,
     confidence |-> r.confidence, is_crisis |-> r.is_crisis,
     message_count |-> r.message_count]

\* the body of /chat/simple
SimpleBody(r) ==
    [response |-> r.answer, classification |-> r.classification, is_crisis |-> r.is_crisis]

NoRequest ==
    [pc |-> "idle", endpoint |-> NoneValue, message |-> NoneValue,
     session_id |-> NoneValue, sid |-> NoneValue, turn |-> 0, called |-> FALSE,
     response |-> NoneValue,
     status |-> 0, body |-> NoneValue, before |-> << >>, components |-> NoneValue]

ApiInit ==
    /\ app_state = "starting"
    /\ sessions = << >>
    /\ req = NoRequest
    /\ turn_no = << >>

\* lifespan: initialize_components sets rag_chain and session_manager, or
\* returns early (no API key, or an exception) and leaves both None
ApiStartup(ok) ==
    /\ app_state = "starting"
    /\ OthersIdle /\ AllThreadsIdle
    /\ app_state' = IF ok THEN "ready" ELSE "missing"
    /\ UNCHANGED << sessions, req, turn_no, chatVars, chunkVars, storeVars >>

\* the response of a request that ends before or without its handler's locals
Responded(endpoint, message, session_id, status) ==
    [NoRequest EXCEPT !.pc = "responded", !.endpoint = endpoint, !.message = message,
                      !.session_id = session_id, !.status = status,
                      !.before = sessions, !.components = app_state]

\* POST /chat arrives: the dependencies get_rag_chain and get_session_manager
\* are resolved (503 when a component is None), then the body is validated
\* (422), then the handler is entered
ApiChatReceive(message, session_id) ==
    /\ app_state # "starting"
    /\ OthersIdle /\ AllThreadsIdle
    /\ session_id = NoneValue => Uuids \ DOMAIN sessions # {}
    /\ (session_id # NoneValue /\ session_id \in DOMAIN turn_no)
          => turn_no[session_id] < MaxTurns
    /\ req' = IF app_state # "ready" THEN Responded("/chat", message, session_id, 503)
              ELSE IF ~ValidMessage(message)
                   THEN Responded("/chat", message, session_id, 422)
                   ELSE [Responded("/chat", message, session_id, 0) EXCEPT !.pc = "handler"]
    /\ UNCHANGED << app_state, sessions, turn_no, chatVars, chunkVars, storeVars >>

\* the handler of /chat up to the return of chain.chat: the session id, the
\* history of the session (which creates the session), the turn
ApiChatTurn(o) ==
    /\ req.pc = "handler"
    /\ req.endpoint = "/chat"
    /\ LET sid == IF req.session_id # NoneValue /\ req.session_id # ""
                  THEN req.session_id
                  ELSE CHOOSE u \in Uuids : u \notin DOMAIN sessions
           created == GetOrCreateSession(sessions, sid)
           k == IF sid \in DOMAIN turn_no THEN turn_no[sid] + 1 ELSE 1
       IN /\ sessions' = created
          /\ turn_no' = IF sid \in DOMAIN turn_no
                        THEN [turn_no EXCEPT ![sid] = k]
                        ELSE turn_no @@ (sid :> k)
          /\ req' = [req EXCEPT !.pc = "chained", !.sid = sid, !.turn = k, !.called = TRUE,
                                !.response = ChainChat(req.message,
                                                       GetChatHistory(sessions, sid), o)]
    /\ UNCHANGED << app_state, chatVars, chunkVars, storeVars >>

\* sessions.add_message(session_id, "user", request.message, classification, is_crisis)
ApiSaveUser ==
    /\ req.pc = "chained"
    /\ req.endpoint = "/chat"
    /\ sessions' = AddMessage(sessions, req.sid, "user", req.message,
                              req.response.classification, req.response.is_crisis)
    /\ req' = [req EXCEPT !.pc = "saved_user"]
    /\ UNCHANGED << app_state, turn_no, chatVars, chunkVars, storeVars >>

\* sessions.add_message(session_id, "assistant", response.answer)
ApiSaveAssistant ==
    /\ req.pc = "saved_user"
    /\ sessions' = AddMessage(sessions, req.sid, "assistant", req.response.answer,
                              NoneValue, FALSE)
    /\ req' = [req EXCEPT !.pc = "saved"]
    /\ UNCHANGED << app_state, turn_no, chatVars, chunkVars, storeVars >>

\* the handler builds its body from the attributes of the response; an
\* attribute the response does not have raises AttributeError, which the
\* handler turns into HTTPException(500)
ApiChatRespond ==
    /\ req.pc = "saved"
    /\ req' = IF ChatBodyReads \subseteq DOMAIN req.response
              THEN [req EXCEPT !.pc = "responded", !.status = 200,
                               !.body = ChatBody(req.response)]
              ELSE [req EXCEPT !.pc = "responded", !.status = 500]
    /\ UNCHANGED << app_state, sessions, turn_no, chatVars, chunkVars, storeVars >>

\* POST /chat/simple arrives: message is a query parameter of type str, with
\* no constraint on its length; get_rag_chain gives 503 when rag_chain is None
ApiSimpleReceive(message) ==
    /\ app_state # "starting"
    /\ OthersIdle /\ AllThreadsIdle
    /\ req' = IF app_state # "ready" THEN Responded("/chat/simple", message, NoneValue, 503)
              ELSE [Responded("/chat/simple", message, NoneValue, 0) EXCEPT !.pc = "handler"]
    /\ UNCHANGED << app_state, sessions, turn_no, chatVars, chunkVars, storeVars >>

\* the handler of /chat/simple: chain.chat(user_message=message) and the body
ApiSimpleTurn(o) ==
    /\ req.pc = "handler"
    /\ req.endpoint = "/chat/simple"
    /\ LET r == ChainChat(req.message, << >>, o)
       IN req' = IF SimpleBodyReads \subseteq DOMAIN r
                 THEN [req EXCEPT !.pc = "responded", !.status = 200, !.called = TRUE,
                                  !.response = r, !.body = SimpleBody(r)]
                 ELSE [req EXCEPT !.pc = "responded", !.status = 500, !.called = TRUE,
                                  !.response = r]
    /\ UNCHANGED << app_state, sessions, turn_no, chatVars, chunkVars, storeVars >>

\* DELETE /session/{session_id}: clear_session deletes the session (200), or
\* there is none (404); 503 without a session manager
ApiClearSession(sid) ==
    /\ app_state # "starting"
    /\ OthersIdle /\ AllThreadsIdle
    /\ IF app_state # "ready"
       THEN /\ req' = Responded("/session", NoneValue, sid, 503)
            /\ UNCHANGED << sessions, turn_no >>
       ELSE IF sid \in DOMAIN sessions
       THEN /\ req' = Responded("/session", NoneValue, sid, 200)
            /\ sessions' = [x \in DOMAIN sessions \ {sid} |-> sessions[x]]
            /\ turn_no' = [x \in DOMAIN turn_no \ {sid} |-> turn_no[x]]
       ELSE /\ req' = Responded("/session", NoneValue, sid, 404)
            /\ UNCHANGED << sessions, turn_no >>
    /\ UNCHANGED << app_state, chatVars, chunkVars, storeVars >>

\* the response is sent
ApiFinish ==
    /\ req.pc = "responded"
    /\ req' = NoRequest
    /\ UNCHANGED << app_state, sessions, turn_no, chatVars, chunkVars, storeVars >>

ApiNext ==
    \/ \E ok \in BOOLEAN : ApiStartup(ok)
    \/ \E m \in ChatMessages, s \in RequestSessionIds : ApiChatReceive(m, s)
    \/ \E o \in TurnOutcomes : ApiChatTurn(o)
    \/ ApiSaveUser
    \/ ApiSaveAssistant
    \/ ApiChatRespond
    \/ \E m \in SimpleMessages : ApiSimpleReceive(m)
    \/ \E o \in TurnOutcomes : ApiSimpleTurn(o)
    \/ ApiClearSession("s1")
    \/ ApiFinish

(***************************************************************************)
(* Specifications.                                                         *)
(***************************************************************************)
Init == ChatInit /\ ChunkInit /\ StoreInit /\ ApiInit

Next ==
    \/ ChatLiveNext
    \/ ChunkNext
    \/ \E t \in Threads : StoreStep(t)
    \/ RaceNext
    \/ ApiNext

\* the whole program
Spec == Init /\ [][Next]_vars

\* the conversation engine alone
ChatSpec == Init /\ [][ChatNext]_vars

\* the conversation engine with stalling calls; the interpreter runs a turn's
\* next step whenever there is one
ChatLiveSpec == Init /\ [][ChatLiveNext]_vars /\ WF_vars(ChatLiveNext)

\* the chunker alone
ChunkSpec == Init /\ [][ChunkNext]_vars

\* the store with one caller at a time
StoreSpec == Init /\ [][StoreNext]_vars

\* the store called from two threads at once
RaceSpec == Init /\ [][RaceNext]_vars

\* the HTTP application with its sessions
ApiSpec == Init /\ [][ApiNext]_vars

(***************************************************************************)
(* Properties of a turn (checked under ChatSpec).                          *)
(***************************************************************************)
ValidLabels == { valid_classes[k] : k \in 1..Len(valid_classes) }

TurnResultFields ==
    { "answer", "classification", "confidence", "retrieved_context", "is_crisis",
      "status_label", "show_label", "message_count" }

SearchFailed == extcalls.search.status \in {"embed_error", "query_error"}
ClassifyFailed == extcalls.classify.status = "error"
ComposeFailed == extcalls.compose.status = "error"

\* C1: whenever the Crisis Detector returns true on the incoming message, the
\* TurnResult returned by chat has classification "Suicidal", confidence 1.0,
\* is_crisis true and show_label true, for every history and every outcome of the
\* Conversation Analyzer, its failure included.
C1_CrisisPrecedence ==
    (pc = "done" /\ CheckCrisis(user_message)) =>
        /\ result.classification = "Suicidal"
        /\ result.confidence = 1000
        /\ result.is_crisis = TRUE
        /\ result.show_label = TRUE

\* a first-message crisis turn whose Analyzer answered Normal with confidence 0.9
C1_Witness ==
    /\ pc = "done"
    /\ CheckCrisis(user_message)
    /\ chat_history = << >>
    /\ extcalls.classify.status = "ok"
    /\ extcalls.classify.content = "CLASSIFICATION: Normal\nCONFIDENCE: 0.9"

\* C2: on every turn whose message the Crisis Detector flags, the answer of the
\* TurnResult contains the fixed crisis-resource text (the hotline number "988"),
\* also when the search and both LLM calls fail.
C2_CrisisAnswerHasResources ==
    (pc = "done" /\ result.is_crisis) => PyIn("988", result.answer)

\* C3: for every combination of success and failure of the store search, the
\* classification call and the composition call, chat raises nothing and returns
\* a TurnResult: a failed search contributes an empty context, a failed
\* classification call ("Normal", 0.3), a failed composition call the fallback text.
C3_TurnAlwaysCompletes ==
    /\ pc # "raised"
    /\ pc \in {"retrieve", "analyze", "decide", "compose"} => ENABLED ChatNext
    /\ (pc \in {"analyze", "decide", "compose", "done"} /\ SearchFailed) =>
           (retrieved = << >> /\ context = "")
    /\ (pc = "decide" /\ ClassifyFailed) =>
           (classification = "Normal" /\ confidence = 300)
    /\ pc = "done" =>
           /\ DOMAIN result = TurnResultFields
           /\ SearchFailed => result.retrieved_context = << >>
           /\ (ClassifyFailed /\ ~result.is_crisis) =>
                  (result.classification = "Normal" /\ result.confidence = 300)
           /\ ComposeFailed => result.answer = FallbackAnswer

\* a turn in which all three external steps failed and a result was returned
C3_Witness ==
    pc = "done" /\ SearchFailed /\ ClassifyFailed /\ ComposeFailed

\* C4: in every TurnResult show_label is true exactly when (message_count >= 3
\* and confidence >= 0.65 and classification # "Normal") or is_crisis, on the
\* final classification and confidence, message_count being the number of user
\* messages of the history plus one.
C4_LabelGate ==
    pc = "done" =>
        /\ result.message_count = Cardinality({ i \in 1..Len(chat_history) :
                                                  chat_history[i].role = "user" }) + 1
        /\ result.show_label =
              ( \/ /\ result.message_count >= 3
                   /\ result.confidence >= 650
                   /\ result.classification # "Normal"
                \/ result.is_crisis )

\* a third user message, no crisis, confidence exactly at the threshold: label shown
C4_Witness ==
    /\ pc = "done"
    /\ ~result.is_crisis
    /\ result.message_count = 3
    /\ result.confidence = 650
    /\ result.show_label

\* C5: in every TurnResult, whatever text the classification call returned
\* (well-formed, malformed, empty) and also when it failed, classification is one
\* of the seven labels.
C5_ClosedClassification ==
    /\ pc \in {"decide", "compose", "done"} => classification \in ValidLabels
    /\ pc = "done" => result.classification \in ValidLabels

\* a result of a turn whose classifier named a category outside the seven labels
C5_Witness ==
    /\ pc = "done"
    /\ extcalls.classify.status = "ok"
    /\ extcalls.classify.content = "CLASSIFICATION: Sad\nCONFIDENCE: 0.8"

\* C6: whenever show_label is true, status_label is the final classification
\* followed by the confidence as a percentage rounded to the nearest integer,
\* "<classification> (<round(confidence*100)>%)".
C6_StatusLabelRounded ==
    (pc = "done" /\ result.show_label) =>
        result.status_label =
            result.classification \o " (" \o PyStr((result.confidence + 5) \div 10) \o "%)"

\* the lines of the classification reply, as _analyze_mental_state splits them
ReplyLines == PySplitLines(PyStrip(extcalls.classify.content))

ClassifyReplied ==
    extcalls.classify.status = "ok" /\ extcalls.classify.content # NoneValue

ClassificationLines ==
    { k \in 1..Len(ReplyLines) : PyStartsWith(ReplyLines[k], "CLASSIFICATION:") }

ConfidenceLines ==
    { k \in 1..Len(ReplyLines) : PyStartsWith(ReplyLines[k], "CONFIDENCE:") }

\* the CLASSIFICATION value of line k names a valid label, exactly or as a
\* case-insensitive substring
NamesValidLabel(k) ==
    LET value == PyStrip(PyReplaceEmpty(ReplyLines[k], "CLASSIFICATION:"))
    IN \E l \in ValidLabels : \E i \in 0..(Len(value) - Len(l)) :
          PyLower(SubSeq(value, i + 1, i + Len(l))) = PyLower(l)

\* C7: for every classification reply whose CLASSIFICATION value matches none of
\* the seven labels, or that has no CLASSIFICATION line, analyze returns exactly
\* ("Normal", 0.5), whatever the reply's CONFIDENCE line contains.
C7_UnknownLabelDefaults ==
    (pc = "decide" /\ ClassifyReplied /\ \A k \in ClassificationLines : ~NamesValidLabel(k)) =>
        (classification = "Normal" /\ confidence = 500)

\* the text of CONFIDENCE line k, as the parser receives it
ConfidenceText(k) == PyStrip(PyReplaceEmpty(ReplyLines[k], "CONFIDENCE:"))

LastOf(S) == CHOOSE k \in S : \A j \in S : j <= k

\* C8: for every classification reply the confidence returned by analyze and
\* carried in the TurnResult lies in [0,1]; a parsed value below 0 becomes 0, a
\* parsed value above 1 becomes 1, and a CONFIDENCE line whose text does not
\* parse as a number yields 0.5 (the reply's last CONFIDENCE line decides).
C8_ConfidenceClamped ==
    /\ pc \in {"decide", "compose", "done"} => confidence \in 0..1000
    /\ pc = "done" => result.confidence \in 0..1000
    /\ (pc = "decide" /\ ClassifyReplied /\ ConfidenceLines # {}) =>
          LET f == PyFloat(ConfidenceText(LastOf(ConfidenceLines)))
          IN /\ ~f.ok => confidence = 500
             /\ (f.ok /\ FloatLt(f.val, Fin(0))) => confidence = 0
             /\ (f.ok /\ FloatLt(Fin(1000), f.val)) => confidence = 1000
             /\ (f.ok /\ f.val.kind = "fin" /\ f.val.milli \in 0..1000) =>
                    confidence = f.val.milli

\* analyze returned 1.0 for a reply whose CONFIDENCE line reads 1.5
C8_Witness ==
    /\ pc = "decide"
    /\ ClassifyReplied
    /\ extcalls.classify.content = "CLASSIFICATION: Anxiety\nCONFIDENCE: 1.5"
    /\ confidence = 1000

PyUpperChar(c) ==
    IF \E u \in { "A", "B", "C", "D", "E", "F", "G", "H", "I", "J", "K", "L", "M", "N",
                  "O", "P", "Q", "R", "S", "T", "U", "V", "W", "X", "Y", "Z" } :
           PyLowerChar(u) = c
    THEN CHOOSE u \in { "A", "B", "C", "D", "E", "F", "G", "H", "I", "J", "K", "L", "M",
                        "N", "O", "P", "Q", "R", "S", "T", "U", "V", "W", "X", "Y", "Z" } :
             PyLowerChar(u) = c
    ELSE c

RECURSIVE PyUpper(_)
PyUpper(s) ==
    IF Len(s) = 0 THEN "" ELSE PyUpperChar(Ch(s, 1)) \o PyUpper(SubSeq(s, 2, Len(s)))

\* phrase occurs in t at some position
OccursIn(phrase, t) ==
    \E i \in 0..(Len(t) - Len(phrase)) : SubSeq(t, i + 1, i + Len(phrase)) = phrase

\* for each message of the model: does a crisis phrase occur in its lower-casing
CrisisPhraseOccurs ==
    [m \in Messages |->
        \E k \in 1..Len(crisis_keywords) : OccursIn(crisis_keywords[k], PyLower(m))]

\* C9: detect(text) is true exactly when a phrase of the fixed crisis list occurs
\* in the lower-cased text; it is the same for every letter-casing of the text
\* and is independent of the history and of the outcome of any external call.
C9_CrisisDetectCaseInsensitive ==
    /\ pc # "idle" => is_crisis = CrisisPhraseOccurs[user_message]
    /\ pc = "done" => result.is_crisis = CrisisPhraseOccurs[user_message]
    /\ pc = "retrieve" =>
          /\ CheckCrisis(PyUpper(user_message)) = is_crisis
          /\ CheckCrisis(PyLower(user_message)) = is_crisis
          /\ \A m \in Messages :
                PyLower(m) = PyLower(user_message) => CheckCrisis(m) = is_crisis

\* an upper-case crisis message detected on a turn whose external calls all failed
C9_Witness ==
    /\ pc = "done"
    /\ user_message = "I WANT TO END MY LIFE"
    /\ result.is_crisis
    /\ SearchFailed /\ ClassifyFailed /\ ComposeFailed

(***************************************************************************)
(* Properties of the chunker (checked under ChunkSpec).                    *)
(***************************************************************************)
\* C10: chunk(text, maxSize, overlap) terminates for every text, maxSize >= 1 and
\* overlap >= 0: each iteration of the loop starts its window strictly after the
\* start of the previous window.
C10_WindowStartsAdvance ==
    [][(cpc = "loop" /\ cpc' = "loop") => start' > start]_vars

RECURSIVE DropOverlaps(_, _, _)
\* the chunks from the i-th on, each without its first ov characters, concatenated
DropOverlaps(cs, ov, i) ==
    IF i > Len(cs) THEN ""
    ELSE PySlice(cs[i], ov, Len(cs[i])) \o DropOverlaps(cs, ov, i + 1)

\* the first chunk followed by every later chunk minus its overlap
Reconstruct(cs, ov) ==
    IF cs = << >> THEN "" ELSE cs[1] \o DropOverlaps(cs, ov, 2)

\* C11: for every text longer than maxSize, the chunks returned, each but the
\* first without the `overlap` characters it shares with its predecessor,
\* concatenate to the original text, boundary whitespace and newlines included.
C11_ChunksReconstructText ==
    (cpc = "done" /\ Len(text) > chunk_size) => Reconstruct(chunks, overlap) = text

\* C12: chunk(t, n, o) returns the one-element list [t], t unchanged (not
\* trimmed), for every text t with len(t) <= n and every overlap o.
C12_ShortTextReturnedWhole ==
    (cpc = "done" /\ Len(text) <= chunk_size) => chunks = << text >>

\* a short text that begins and ends with whitespace was returned
C12_Witness ==
    /\ cpc = "done"
    /\ Len(text) <= chunk_size
    /\ Len(text) >= 2
    /\ Ch(text, 1) = " "
    /\ Ch(text, Len(text)) = "\n"

SeparatorIn(window) == \E k \in 1..Len(separators) : PyIn(separators[k], window)

\* C13: every chunk has length <= maxSize whenever a separator occurs in the
\* chunk's window, and a chunk cut without a separator has, before trimming,
\* length exactly min(maxSize, remaining text).  Stated on each loop iteration:
\* the window begins at start, the cut is at start' + overlap.
C13_ChunkLengths ==
    [][(cpc = "loop" /\ cpc' = "loop" /\ Len(chunks') = Len(chunks) + 1) =>
          LET window == PySlice(text, start, start + chunk_size)
              end == start' + overlap
              cutAtSeparator == start + chunk_size < Len(text) /\ SeparatorIn(window)
          IN /\ SeparatorIn(window) => Len(chunks'[Len(chunks')]) <= chunk_size
             /\ ~cutAtSeparator =>
                    Len(PySlice(text, start, end)) = MinOf(chunk_size, Len(text) - start)
      ]_vars

(***************************************************************************)
(* Properties of the store (checked under StoreSpec, one caller at a time, *)
(* and under RaceSpec, two threads).                                       *)
(***************************************************************************)
Calls(op) == { t \in Threads : th[t].pc = "done" /\ th[t].op = op }

UpsertPcs == { "upsert_get", "upsert_embed", "upsert_add" }

\* C15: in add_documents a batch that fails (get, embedding or write) adds no
\* document, the batches after it are still processed, and the value returned
\* is the number of documents written, which is the increase of the count.
C15_FailedBatchSkipped ==
    [][\A t \in Threads :
          /\ (th[t].pc \in UpsertPcs /\ th'[t].errors > th[t].errors) =>
                /\ colls' = colls
                /\ th'[t].added_count = th[t].added_count
                /\ th'[t].i = th[t].i + th[t].batch_size
                /\ IF th'[t].i < Len(th[t].documents)
                   THEN th'[t].pc = "upsert_get" ELSE th'[t].pc = "done"
          /\ (th'[t] # th[t] /\ th'[t].pc = "done" /\ th'[t].op = "add_documents") =>
                th'[t].added_count = StoreCount' - th'[t].before
      ]_vars

\* a two-batch call whose first batch failed and whose second batch was written
C15_Witness ==
    \E t \in Calls("add_documents") :
        /\ Len(th[t].documents) = 2
        /\ th[t].batch_size = 1
        /\ th[t].errors = 1
        /\ th[t].added_count = 1
        /\ DocId(th[t].documents[1]) \notin colls[collection].ids
        /\ DocId(th[t].documents[2]) \in colls[collection].ids

\* position of a document id in the index's nearest-first order
RankOf(id) == CHOOSE j \in 1..Len(NearestFirst) : DocId(NearestFirst[j].doc) = id

\* C16: search(query, topK, filter, threshold) returns at most topK items, each
\* with similarity = 1 - distance and similarity >= threshold, in the index's
\* nearest-first order.
C16_SearchResults ==
    \A t \in Calls("search") :
        LET r == th[t].results
        IN /\ ~th[t].raised
           /\ Len(r) <= th[t].top_k
           /\ \A j \in 1..Len(r) :
                 /\ r[j].id \in colls[collection].ids
                 /\ r[j].similarity = 1000 - NearestFirst[RankOf(r[j].id)].distance
                 /\ r[j].similarity >= th[t].threshold
                 /\ MatchesWhere(r[j].metadata, th[t].filter_metadata)
           /\ \A j, k \in 1..Len(r) : j < k => RankOf(r[j].id) < RankOf(r[k].id)

\* a search over the three documents that returned two of them, the threshold
\* having dropped the farthest
C16_Witness ==
    \E t \in Calls("search") :
        /\ th[t].top_k = 3
        /\ th[t].threshold = 0
        /\ th[t].filter_metadata = NoFilter
        /\ Cardinality(colls[collection].ids) = 3
        /\ Len(th[t].results) = 2

\* C17: when the embedding call or the nearest-neighbour query fails, search
\* returns [] and raises nothing, and the store is as it was.
C17_SearchFailureReturnsEmpty ==
    [][\A t \in Threads :
          (/\ th[t].pc \in { "search_embed", "search_query" }
           /\ th'[t].pc = "done"
           /\ th'[t].status # "ok") =>
              /\ ~th'[t].raised
              /\ th'[t].results = << >>
              /\ UNCHANGED << colls, registered, collection >>
      ]_vars

\* a search of a store that holds documents whose index query failed
C17_Witness ==
    \E t \in Calls("search") :
        /\ th[t].status = "query_error"
        /\ colls[collection].alive
        /\ colls[collection].ids # {}
        /\ th[t].results = << >>

\* C18: whenever clear_collection fails, the failure reaches the caller as an
\* error, for a direct caller and for the index reload alike.
C18_ClearFailureReachesCaller ==
    \A t \in Threads :
        (th[t].pc = "done" /\ th[t].clear_failed) => th[t].raised

\* C19: whenever clear_collection returns without error, the count is 0 and the
\* adapter holds the new, empty collection that Chroma has registered, so that
\* add_documents and search work on it.
C19_ClearLeavesEmptyLiveCollection ==
    \A t \in Calls("clear_collection") :
        ~th[t].clear_failed =>
            /\ colls[collection].alive
            /\ collection = registered
            /\ StoreCount = 0

\* a clear of the first collection, which held three documents, has returned
C19_Witness ==
    \E t \in Calls("clear_collection") :
        /\ ~th[t].clear_failed
        /\ th[t].before = 3
        /\ Len(colls) = 2

\* C20: under every interleaving of add_documents, search, clear_collection
\* and reload calls of two threads, no search raises, and once every call has
\* returned the adapter serves from the live collection, the one Chroma has
\* registered.
C20_RaceLeavesLiveCollection ==
    /\ \A t \in Calls("search") : ~th[t].raised
    /\ AllThreadsIdle => (colls[collection].alive /\ collection = registered)

(***************************************************************************)
(* Properties of a turn, continued.                                        *)
(***************************************************************************)
\* C21: every turn eventually returns a TurnResult, also when an external call
\* never responds: the stalled call is abandoned after a bounded time.
C21_TurnEventuallyReturns == (pc = "retrieve") ~> (pc = "done")

\* C26: in every TurnResult the classification is "Suicidal" only if the crisis
\* flag is true: the label is reserved for crisis detection.
C26_SuicidalOnlyWithCrisis ==
    (pc = "done" /\ result.classification = "Suicidal") => result.is_crisis

CallKinds == [i \in 1..Len(calls) |-> calls[i].kind]

\* C25: within every turn the store search is over before the classification
\* call is sent and the classification call is over before the composition
\* call is sent; each of the three is sent exactly once per turn, also when a
\* crisis is detected or an earlier call failed; and the Analyzer and the
\* Composer are handed the same formatted context string.
C25_CallsOnceInOrder ==
    /\ pc = "analyze" => CallKinds = << "search" >>
    /\ pc \in {"decide", "compose"} => CallKinds = << "search", "classify" >>
    /\ pc = "done" =>
          /\ CallKinds = << "search", "classify", "compose" >>
          /\ calls[1].query = user_message
          /\ calls[2].context = FormatContext(result.retrieved_context)
          /\ calls[3].context = calls[2].context

\* a crisis turn whose search and classification call both failed has made its
\* three calls
C25_Witness ==
    /\ pc = "done"
    /\ CallKinds = << "search", "classify", "compose" >>
    /\ result.is_crisis
    /\ SearchFailed
    /\ ClassifyFailed

\* C27: the composition prompt is, in this order, the system profile (the
\* crisis profile exactly when is_crisis holds), a knowledge block exactly when
\* the context is not empty, the last min(10, len(history)) history messages
\* in their order, and the current user message last.
C27_PromptComposition ==
    pc = "done" =>
        LET msgs == calls[3].messages
            k == IF context # "" THEN 1 ELSE 0
            n == MinOf(HISTORY_WINDOW, Len(chat_history))
        IN /\ Len(msgs) = 1 + k + n + 1
           /\ msgs[1] = [role |-> "system",
                         content |-> IF is_crisis THEN CrisisProfile ELSE SupportProfile]
           /\ k = 1 => (msgs[2].role = "system" /\ msgs[2].content = KnowledgePrompt(context))
           /\ \A j \in 1..n : msgs[1 + k + j] = chat_history[Len(chat_history) - n + j]
           /\ msgs[Len(msgs)] = [role |-> "user", content |-> user_message]

\* a crisis turn with context and a history of eleven messages has sent its prompt
C27_Witness ==
    /\ pc = "done"
    /\ is_crisis
    /\ context # ""
    /\ Len(chat_history) = HISTORY_WINDOW + 1
    /\ calls[3].messages[3].content = "message 2"

(***************************************************************************)
(* Properties of the HTTP application (checked under ApiSpec).             *)
(***************************************************************************)
\* the stored messages of a session, none when there is no such session
StoredMessages(ss, sid) == IF sid \in DOMAIN ss THEN ss[sid] ELSE << >>

IsPrefix(a, b) == Len(a) <= Len(b) /\ SubSeq(b, 1, Len(a)) = a

\* C22: a POST /chat with a valid message ends with status 200 and a body with
\* response, classification and is_crisis whenever the chain and the session
\* manager are initialised, and with 503 when they are not; once chain.chat has
\* returned, the request ends with no other status than 200.
C22_ChatEnds200Or503 ==
    (req.pc = "responded" /\ req.endpoint = "/chat" /\ ValidMessage(req.message)) =>
        /\ req.components = "ready" =>
              /\ req.status = 200
              /\ {"response", "classification", "is_crisis"} \subseteq DOMAIN req.body
        /\ req.components # "ready" => req.status = 503
        /\ req.called => req.status = 200

\* C23: every message that reaches chat through /chat or /chat/simple has
\* between 1 and 5000 characters; a message of length 0 or above 5000 is
\* rejected with 422 before a session is touched or the chain is called.
C23_MessageLengthValidated ==
    /\ req.called => (Len(req.message) >= 1 /\ Len(req.message) <= 5000)
    /\ (/\ req.pc = "responded"
        /\ req.endpoint \in {"/chat", "/chat/simple"}
        /\ req.components = "ready"
        /\ (Len(req.message) = 0 \/ Len(req.message) > 5000))
          => (req.status = 422 /\ ~req.called /\ sessions = req.before)

\* C24: at every add_message call the stored history before the call is a
\* prefix of the stored history after it.
C24_HistoryOnlyAppended ==
    [][req.pc \in {"chained", "saved_user"}
         => IsPrefix(sessions[req.sid], sessions'[req.sid])]_vars

\* C28: if a POST /chat ends with a 5xx status, the stored history of its
\* session is what it was before the request.
C28_ServerErrorKeepsHistory ==
    (req.pc = "responded" /\ req.endpoint = "/chat" /\ req.status >= 500) =>
        StoredMessages(sessions, req.sid) = StoredMessages(req.before, req.sid)

\* C29: the message_count computed for the k-th turn of a session is k, for
\* every k >= 1, also after the stored history has been trimmed.
C29_MessageCountIsTurnNumber ==
    (req.endpoint = "/chat" /\ req.called) => req.response.message_count = req.turn

(***************************************************************************)
(* Properties of the index reload (checked under StoreSpec).               *)
(***************************************************************************)
DatasetIds == { DocId(Dataset[j]) : j \in 1..Len(Dataset) }

\* C30: when an index reload finishes, the store holds either every document
\* of the fresh dataset or exactly what it held before the reload; it is never
\* left empty or partly filled.
C30_ReloadAllOrNothing ==
    \A t \in Threads :
        (th[t].pc = "done" /\ th[t].task = "reload") =>
            (StoreContents = DatasetIds \/ StoreContents = th[t].prior)

====
